---- MODULE Spec2Model ----
(***************************************************************************)
(* Model of the user-account and calculation-record service.               *)
(*                                                                         *)
(* The data store is one variable, db: the users table (a sequence, a      *)
(* row's id is its position) and the calculations table.  Every request    *)
(* handler is an operator from (request, db) to a result record            *)
(*   [db, status, detail, body, access_token]                              *)
(* holding the store after the request and the HTTP response; an action    *)
(* applies one handler to the store and records the response in resp.      *)
(***************************************************************************)
EXTENDS Integers, Sequences, FiniteSets, TLC

\* Request inputs.  All of them pass the pydantic schemas (UserCreate,
\* UserLogin, UserProfileUpdate, PasswordChange): the handlers only ever
\* run on validated input.
Usernames == {"alice", "bob", "carol"}
Emails == {"a@example.com", "b@example.com"}
Passwords == {"securepass123", "newsecure123"}

\* Python's None for an optional string field.
None == "None"

\* Number of tokens the clients keep (the server keeps none).
MaxTokens == 2

VARIABLES
    db,      \* [users : Seq(User), calcs : SUBSET Calculation, calc_seq : Nat]
    tokens,  \* tokens held by clients: [token, owner], owner = id of the user it was issued to
    resp,    \* the response to the last request
    history, \* [created : {<<calculation id, creator's user id>>}, deleted : {calculation id}]
    inflight \* requests whose handler is between its checks and its commit

vars == <<db, tokens, resp, history, inflight>>

----------------------------------------------------------------------------
(* app.utils: credential hashing *)

hash_password(password) == <<"hash", password>>

verify_password(plain_password, password_hash) ==
    password_hash = hash_password(plain_password)

----------------------------------------------------------------------------
(* app.utils.auth: signed tokens and identity resolution *)

\* No Authorization header, and a token whose signature does not verify.
NoToken == <<>>
BadToken == <<"jwt-invalid">>

create_access_token(data) == <<"jwt", data.sub>>

\* db.query(User).filter(User.username == username).first(): the id of the
\* row, 0 for no row.
query_user_by_username(d, username) ==
    IF \E i \in 1..Len(d.users) : d.users[i].username = username
    THEN CHOOSE i \in 1..Len(d.users) :
            /\ d.users[i].username = username
            /\ \A j \in 1..(i - 1) : d.users[j].username # username
    ELSE 0

\* db.query(User).filter(User.email == email).first()
query_user_by_email(d, email) ==
    IF \E i \in 1..Len(d.users) : d.users[i].email = email
    THEN CHOOSE i \in 1..Len(d.users) :
            /\ d.users[i].email = email
            /\ \A j \in 1..(i - 1) : d.users[j].email # email
    ELSE 0

\* The dependency of every protected endpoint: the user the token's subject
\* (a username) names, or 401.
get_current_user(token, d) ==
    IF token = NoToken
    THEN [status |-> 401, detail |-> "Not authenticated", user |-> 0]
    ELSE IF token = BadToken
    THEN [status |-> 401, detail |-> "Could not validate credentials", user |-> 0]
    ELSE LET user == query_user_by_username(d, token[2])
         IN  IF user = 0
             THEN [status |-> 401, detail |-> "Could not validate credentials", user |-> 0]
             ELSE [status |-> 200, detail |-> None, user |-> user]

----------------------------------------------------------------------------
(* Responses *)

\* raise HTTPException(...): nothing was committed, the store is as before.
HTTPException(d, status_code, detail) ==
    [db |-> d, status |-> status_code, detail |-> detail,
     body |-> <<>>, access_token |-> NoToken, token_type |-> None]

\* response_model=UserRead: the row without its password hash.
UserRead(user) ==
    [id |-> user.id, username |-> user.username, email |-> user.email]

----------------------------------------------------------------------------
(* app/routers/users.py *)

\* Mutant: the row is built with email and username swapped.
register_user_swapped(user, d) ==
    IF query_user_by_email(d, user.email) # 0
    THEN HTTPException(d, 400, "Email already registered")
    ELSE IF query_user_by_username(d, user.username) # 0
    THEN HTTPException(d, 400, "Username already taken")
    ELSE LET new_user == [id |-> Len(d.users) + 1,
                          email |-> user.username,
                          username |-> user.email,
                          password_hash |-> hash_password(user.password)]
         IN  [db |-> [d EXCEPT !.users = Append(d.users, new_user)],
              status |-> 201, detail |-> None,
              body |-> <<UserRead(new_user)>>, access_token |-> NoToken, token_type |-> None]

\* Mutant: the username is checked before the email.
register_user_username_first(user, d) ==
    IF query_user_by_username(d, user.username) # 0
    THEN HTTPException(d, 400, "Username already taken")
    ELSE IF query_user_by_email(d, user.email) # 0
    THEN HTTPException(d, 400, "Email already registered")
    ELSE LET new_user == [id |-> Len(d.users) + 1,
                          email |-> user.email,
                          username |-> user.username,
                          password_hash |-> hash_password(user.password)]
         IN  [db |-> [d EXCEPT !.users = Append(d.users, new_user)],
              status |-> 201, detail |-> None,
              body |-> <<UserRead(new_user)>>, access_token |-> NoToken, token_type |-> None]

\* Mutant: the username is not checked.
register_user_no_username_check(user, d) ==
    IF query_user_by_email(d, user.email) # 0
    THEN HTTPException(d, 400, "Email already registered")
    ELSE LET new_user == [id |-> Len(d.users) + 1,
                          email |-> user.email,
                          username |-> user.username,
                          password_hash |-> hash_password(user.password)]
         IN  [db |-> [d EXCEPT !.users = Append(d.users, new_user)],
              status |-> 201, detail |-> None,
              body |-> <<UserRead(new_user)>>, access_token |-> NoToken, token_type |-> None]

register_user(user, d) ==
    IF query_user_by_email(d, user.email) # 0
    THEN HTTPException(d, 400, "Email already registered")
    ELSE IF query_user_by_username(d, user.username) # 0
    THEN HTTPException(d, 400, "Username already taken")
    ELSE LET hashed_pwd == hash_password(user.password)
             new_user == [id |-> Len(d.users) + 1,
                          email |-> user.email,
                          username |-> user.username,
                          password_hash |-> hashed_pwd]
         IN  [db |-> [d EXCEPT !.users = Append(d.users, new_user)],
              status |-> 201, detail |-> None,
              body |-> <<UserRead(new_user)>>, access_token |-> NoToken, token_type |-> None]

\* Mutant: the password is not verified.
login_user_no_verify(user, d) ==
    LET db_user == query_user_by_username(d, user.username)
    IN  IF db_user = 0
        THEN HTTPException(d, 401, "Invalid credentials")
        ELSE [db |-> d, status |-> 200, detail |-> None, body |-> <<>>,
              access_token |->
                  create_access_token([sub |-> d.users[db_user].username]),
              token_type |-> "bearer"]

\* Mutant: the token's subject is the email, not the username.
login_user_sub_email(user, d) ==
    LET db_user == query_user_by_username(d, user.username)
    IN  IF db_user = 0
        THEN HTTPException(d, 401, "Invalid credentials")
        ELSE IF ~verify_password(user.password, d.users[db_user].password_hash)
        THEN HTTPException(d, 401, "Invalid credentials")
        ELSE [db |-> d, status |-> 200, detail |-> None, body |-> <<>>,
              access_token |->
                  create_access_token([sub |-> d.users[db_user].email]),
              token_type |-> "bearer"]

login_user(user, d) ==
    LET db_user == query_user_by_username(d, user.username)
    IN  IF db_user = 0
        THEN HTTPException(d, 401, "Invalid credentials")
        ELSE IF ~verify_password(user.password, d.users[db_user].password_hash)
        THEN HTTPException(d, 401, "Invalid credentials")
        ELSE [db |-> d, status |-> 200, detail |-> None, body |-> <<>>,
              access_token |->
                  create_access_token([sub |-> d.users[db_user].username]),
              token_type |-> "bearer"]

read_current_user(d, current_user) ==
    [db |-> d, status |-> 200, detail |-> None,
     body |-> <<UserRead(d.users[current_user])>>, access_token |-> NoToken, token_type |-> None]

\* Mutant: the refreshed token is made from the username read before the
\* assignment.
update_current_user_stale_token(update, d, current_user) ==
    LET cu == d.users[current_user]
    IN  IF /\ update.username # None
           /\ update.username # cu.username
           /\ query_user_by_username(d, update.username) # 0
        THEN HTTPException(d, 400, "Username already taken")
        ELSE IF /\ update.email # None
                /\ update.email # cu.email
                /\ query_user_by_email(d, update.email) # 0
        THEN HTTPException(d, 400, "Email already registered")
        ELSE LET named == IF update.username # None
                          THEN [cu EXCEPT !.username = update.username]
                          ELSE cu
                 saved == IF update.email # None
                          THEN [named EXCEPT !.email = update.email]
                          ELSE named
                 new_token == IF update.username # None
                              THEN create_access_token([sub |-> cu.username])
                              ELSE NoToken
             IN  [db |-> [d EXCEPT !.users[current_user] = saved],
                  status |-> 200, detail |-> None,
                  body |-> <<UserRead(saved)>>, access_token |-> new_token,
                  token_type |-> "bearer"]

\* Mutant: the requested username is not checked against the other users.
update_current_user_no_username_check(update, d, current_user) ==
    LET cu == d.users[current_user]
    IN  IF /\ update.email # None
           /\ update.email # cu.email
           /\ query_user_by_email(d, update.email) # 0
        THEN HTTPException(d, 400, "Email already registered")
        ELSE LET named == IF update.username # None
                          THEN [cu EXCEPT !.username = update.username]
                          ELSE cu
                 saved == IF update.email # None
                          THEN [named EXCEPT !.email = update.email]
                          ELSE named
                 new_token == IF update.username # None
                              THEN create_access_token([sub |-> saved.username])
                              ELSE NoToken
             IN  [db |-> [d EXCEPT !.users[current_user] = saved],
                  status |-> 200, detail |-> None,
                  body |-> <<UserRead(saved)>>, access_token |-> new_token,
                  token_type |-> "bearer"]

\* Mutant: a supplied value that is the user's own counts as taken.
update_current_user_self_conflict(update, d, current_user) ==
    LET cu == d.users[current_user]
    IN  IF update.username # None
           /\ query_user_by_username(d, update.username) # 0
        THEN HTTPException(d, 400, "Username already taken")
        ELSE IF update.email # None
                /\ query_user_by_email(d, update.email) # 0
        THEN HTTPException(d, 400, "Email already registered")
        ELSE LET saved == [cu EXCEPT
                     !.username = IF update.username # None THEN update.username ELSE @,
                     !.email = IF update.email # None THEN update.email ELSE @]
             IN  [db |-> [d EXCEPT !.users[current_user] = saved],
                  status |-> 200, detail |-> None,
                  body |-> <<UserRead(saved)>>,
                  access_token |-> IF update.username # None
                                   THEN create_access_token([sub |-> saved.username])
                                   ELSE NoToken,
                  token_type |-> "bearer"]

update_current_user(update, d, current_user) ==
    LET cu == d.users[current_user]
    IN  IF /\ update.username # None
           /\ update.username # cu.username
           /\ query_user_by_username(d, update.username) # 0
        THEN HTTPException(d, 400, "Username already taken")
        ELSE IF /\ update.email # None
                /\ update.email # cu.email
                /\ query_user_by_email(d, update.email) # 0
        THEN HTTPException(d, 400, "Email already registered")
        ELSE LET named == IF update.username # None
                          THEN [cu EXCEPT !.username = update.username]
                          ELSE cu
                 saved == IF update.email # None
                          THEN [named EXCEPT !.email = update.email]
                          ELSE named
                 new_token == IF update.username # None
                              THEN create_access_token([sub |-> saved.username])
                              ELSE NoToken
             IN  [db |-> [d EXCEPT !.users[current_user] = saved],
                  status |-> 200, detail |-> None,
                  body |-> <<UserRead(saved)>>, access_token |-> new_token,
                  token_type |-> "bearer"]

\* Mutant: the new hash is assigned but never committed.
change_password_no_commit(payload, d, current_user) ==
    LET cu == d.users[current_user]
    IN  IF ~verify_password(payload.current_password, cu.password_hash)
        THEN HTTPException(d, 400, "Current password is incorrect")
        ELSE [db |-> d, status |-> 200, detail |-> None,
              body |-> <<[message |-> "Password updated successfully"]>>,
              access_token |-> NoToken, token_type |-> None]

\* Mutant: the current password is not verified.
change_password_no_verify(payload, d, current_user) ==
    [db |-> [d EXCEPT !.users[current_user].password_hash =
                          hash_password(payload.new_password)],
     status |-> 200, detail |-> None,
     body |-> <<[message |-> "Password updated successfully"]>>,
     access_token |-> NoToken, token_type |-> None]

change_password(payload, d, current_user) ==
    LET cu == d.users[current_user]
    IN  IF ~verify_password(payload.current_password, cu.password_hash)
        THEN HTTPException(d, 400, "Current password is incorrect")
        ELSE [db |-> [d EXCEPT !.users[current_user].password_hash =
                                    hash_password(payload.new_password)],
              status |-> 200, detail |-> None,
              body |-> <<[message |-> "Password updated successfully"]>>,
              access_token |-> NoToken, token_type |-> None]

----------------------------------------------------------------------------
(* The calculations router: create/read/update/delete scoped to the        *)
(* authenticated user.                                                     *)

CalculationType == {"Add", "Subtract", "Multiply", "Divide"}
Operands == {0, 3}

\* An optional number of a request: Unset, or <<x>> for the number x.
Unset == <<>>
Optional(S) == {Unset} \cup {<<x>> : x \in S}

\* Largest number of calculation ids the model hands out.
MaxCalcs == 1

RECURSIVE Gcd(_, _)
Gcd(m, n) == IF n = 0 THEN m ELSE Gcd(n, m % n)

Abs(x) == IF x < 0 THEN 0 - x ELSE x

\* The number num/den (den # 0) in lowest terms, as <<numerator, denominator>>.
Fraction(num, den) ==
    LET g == Gcd(Abs(num), Abs(den))
        s == IF den < 0 THEN 0 - 1 ELSE 1
    IN  <<(s * num) \div g, (s * den) \div g>>

\* Mutant: Subtract takes its operands in the wrong order.
compute_result_swapped(a, b, type) ==
    CASE type = "Add" -> Fraction(a + b, 1)
      [] type = "Subtract" -> Fraction(b - a, 1)
      [] type = "Multiply" -> Fraction(a * b, 1)
      [] type = "Divide" -> Fraction(a, b)

\* The result of a calculation; Divide is only computed for b # 0.
compute_result(a, b, type) ==
    CASE type = "Add" -> Fraction(a + b, 1)
      [] type = "Subtract" -> Fraction(a - b, 1)
      [] type = "Multiply" -> Fraction(a * b, 1)
      [] type = "Divide" -> Fraction(a, b)

\* Mutant: the lookup by id forgets the owner.
query_calculation_any_owner(d, calc_id, current_user) ==
    {c \in d.calcs : c.id = calc_id}

\* The caller's own calculation with this id, as a set (empty: 404).
query_calculation(d, calc_id, current_user) ==
    {c \in d.calcs : c.id = calc_id /\ c.user_id = current_user}

\* Mutant: the division guard looks at the wrong operand.
create_calculation_wrong_guard(calc, d, current_user) ==
    IF calc.type = "Divide" /\ calc.a = 0
    THEN HTTPException(d, 422, "Division by zero is not allowed")
    ELSE LET new_calc == [id |-> d.calc_seq + 1, user_id |-> current_user,
                          a |-> calc.a, b |-> calc.b, type |-> calc.type,
                          result |-> IF calc.type = "Divide" /\ calc.b = 0
                                     THEN <<1, 0>>
                                     ELSE compute_result(calc.a, calc.b, calc.type)]
         IN  [db |-> [d EXCEPT !.calcs = @ \cup {new_calc},
                               !.calc_seq = @ + 1],
              status |-> 201, detail |-> None,
              body |-> <<new_calc>>, access_token |-> NoToken, token_type |-> None]

create_calculation(calc, d, current_user) ==
    IF calc.type = "Divide" /\ calc.b = 0
    THEN HTTPException(d, 422, "Division by zero is not allowed")
    ELSE LET new_calc == [id |-> d.calc_seq + 1, user_id |-> current_user,
                          a |-> calc.a, b |-> calc.b, type |-> calc.type,
                          result |-> compute_result(calc.a, calc.b, calc.type)]
         IN  [db |-> [d EXCEPT !.calcs = @ \cup {new_calc},
                               !.calc_seq = @ + 1],
              status |-> 201, detail |-> None,
              body |-> <<new_calc>>, access_token |-> NoToken, token_type |-> None]

read_calculations(d, current_user) ==
    [db |-> d, status |-> 200, detail |-> None,
     body |-> <<{c \in d.calcs : c.user_id = current_user}>>,
     access_token |-> NoToken, token_type |-> None]

read_calculation(calc_id, d, current_user) ==
    LET found == query_calculation(d, calc_id, current_user)
    IN  IF found = {}
        THEN HTTPException(d, 404, "Calculation not found")
        ELSE [db |-> d, status |-> 200, detail |-> None,
              body |-> <<CHOOSE c \in found : TRUE>>, access_token |-> NoToken, token_type |-> None]

\* Mutant: the fields are replaced but the result is not recomputed.
update_calculation_stale_result(calc_id, update, d, current_user) ==
    LET found == query_calculation(d, calc_id, current_user)
    IN  IF found = {}
        THEN HTTPException(d, 404, "Calculation not found")
        ELSE LET old == CHOOSE c \in found : TRUE
                 a == IF update.a # Unset THEN update.a[1] ELSE old.a
                 b == IF update.b # Unset THEN update.b[1] ELSE old.b
                 type == IF update.type # None THEN update.type ELSE old.type
             IN  IF type = "Divide" /\ b = 0
                 THEN HTTPException(d, 422, "Division by zero is not allowed")
                 ELSE LET new == [old EXCEPT !.a = a, !.b = b, !.type = type]
                      IN  [db |-> [d EXCEPT !.calcs = (@ \ {old}) \cup {new}],
                           status |-> 200, detail |-> None,
                           body |-> <<new>>, access_token |-> NoToken, token_type |-> None]

update_calculation(calc_id, update, d, current_user) ==
    LET found == query_calculation(d, calc_id, current_user)
    IN  IF found = {}
        THEN HTTPException(d, 404, "Calculation not found")
        ELSE LET old == CHOOSE c \in found : TRUE
                 a == IF update.a # Unset THEN update.a[1] ELSE old.a
                 b == IF update.b # Unset THEN update.b[1] ELSE old.b
                 type == IF update.type # None THEN update.type ELSE old.type
             IN  IF type = "Divide" /\ b = 0
                 THEN HTTPException(d, 422, "Division by zero is not allowed")
                 ELSE LET new == [old EXCEPT !.a = a, !.b = b, !.type = type,
                                             !.result = compute_result(a, b, type)]
                      IN  [db |-> [d EXCEPT !.calcs = (@ \ {old}) \cup {new}],
                           status |-> 200, detail |-> None,
                           body |-> <<new>>, access_token |-> NoToken, token_type |-> None]

\* Mutant: 204 is returned but the row is not removed.
delete_calculation_no_commit(calc_id, d, current_user) ==
    LET found == query_calculation(d, calc_id, current_user)
    IN  IF found = {}
        THEN HTTPException(d, 404, "Calculation not found")
        ELSE [db |-> d, status |-> 204, detail |-> None,
              body |-> <<>>, access_token |-> NoToken, token_type |-> None]

delete_calculation(calc_id, d, current_user) ==
    LET found == query_calculation(d, calc_id, current_user)
    IN  IF found = {}
        THEN HTTPException(d, 404, "Calculation not found")
        ELSE [db |-> [d EXCEPT !.calcs = @ \ found],
              status |-> 204, detail |-> None,
              body |-> <<>>, access_token |-> NoToken, token_type |-> None]

----------------------------------------------------------------------------
(* The endpoints: a protected one resolves the caller first. *)

POST_users_register(user, d) == register_user(user, d)

POST_users_login(user, d) == login_user(user, d)

GET_users_me(token, d) ==
    LET auth == get_current_user(token, d)
    IN  IF auth.status # 200 THEN HTTPException(d, auth.status, auth.detail)
        ELSE read_current_user(d, auth.user)

\* Mutant: the dependency is optional, and a request without a resolved
\* caller is served as the first user.
PUT_users_me_optional_auth(token, update, d) ==
    LET auth == get_current_user(token, d)
    IN  IF auth.status # 200 /\ Len(d.users) = 0
        THEN HTTPException(d, auth.status, auth.detail)
        ELSE update_current_user(update, d, IF auth.status # 200 THEN 1 ELSE auth.user)

PUT_users_me(token, update, d) ==
    LET auth == get_current_user(token, d)
    IN  IF auth.status # 200 THEN HTTPException(d, auth.status, auth.detail)
        ELSE update_current_user(update, d, auth.user)

POST_users_change_password(token, payload, d) ==
    LET auth == get_current_user(token, d)
    IN  IF auth.status # 200 THEN HTTPException(d, auth.status, auth.detail)
        ELSE change_password(payload, d, auth.user)

POST_calculations(token, calc, d) ==
    LET auth == get_current_user(token, d)
    IN  IF auth.status # 200 THEN HTTPException(d, auth.status, auth.detail)
        ELSE create_calculation(calc, d, auth.user)

GET_calculations(token, d) ==
    LET auth == get_current_user(token, d)
    IN  IF auth.status # 200 THEN HTTPException(d, auth.status, auth.detail)
        ELSE read_calculations(d, auth.user)

GET_calculations_id(token, calc_id, d) ==
    LET auth == get_current_user(token, d)
    IN  IF auth.status # 200 THEN HTTPException(d, auth.status, auth.detail)
        ELSE read_calculation(calc_id, d, auth.user)

PUT_calculations_id(token, calc_id, update, d) ==
    LET auth == get_current_user(token, d)
    IN  IF auth.status # 200 THEN HTTPException(d, auth.status, auth.detail)
        ELSE update_calculation(calc_id, update, d, auth.user)

DELETE_calculations_id(token, calc_id, d) ==
    LET auth == get_current_user(token, d)
    IN  IF auth.status # 200 THEN HTTPException(d, auth.status, auth.detail)
        ELSE delete_calculation(calc_id, d, auth.user)

----------------------------------------------------------------------------
(* The state machine *)

UserCreate == [username : Usernames, email : Emails, password : Passwords]
UserLogin == [username : Usernames, password : Passwords]
UserProfileUpdate == [username : Usernames \cup {None}, email : Emails \cup {None}]
PasswordChange == [current_password : Passwords, new_password : Passwords]

\* Who sends a request: a client holding a token, or one that sends no
\* Authorization header (owner 0: nobody).
Callers == tokens \cup {[token |-> NoToken, owner |-> 0]}

\* A client keeps the token a response carries.
Keep(r, owner) ==
    IF r.access_token # NoToken /\ owner # 0
       /\ Cardinality(tokens \cup {[token |-> r.access_token, owner |-> owner]}) <= MaxTokens
    THEN tokens \cup {[token |-> r.access_token, owner |-> owner]}
    ELSE tokens

\* The response as recorded, with what it answers: req is the request's
\* payload (a tuple), uid the user the request was resolved to (0: none).
Response(op, req, r, uid) ==
    [op |-> op, req |-> req, status |-> r.status, detail |-> r.detail,
     body |-> r.body, access_token |-> r.access_token,
     token_type |-> r.token_type, uid |-> uid]

NoResponse ==
    [op |-> "none", req |-> <<>>, status |-> 0, detail |-> None, body |-> <<>>,
     access_token |-> NoToken, token_type |-> None, uid |-> 0]

NoHistory == [created |-> {}, deleted |-> {}]

\* The two workers that serve requests side by side.
Slots == {1, 2}

EmptyStore == [users |-> <<>>, calcs |-> {}, calc_seq |-> 0]

\* A worker that serves no request.
Idle ==
    [pc |-> "idle", kind |-> None, uid |-> 0, username |-> None, email |-> None,
     password |-> None, status |-> 0, detail |-> None]

\* No request in flight; base is the store as it was before the first one.
NoInflight == [base |-> EmptyStore, slot |-> [s \in Slots |-> Idle]]

Init ==
    /\ db = EmptyStore
    /\ tokens = {}
    /\ resp = NoResponse
    /\ history = NoHistory
    /\ inflight = NoInflight

Register ==
    \E user \in UserCreate :
        \E r \in {POST_users_register(user, db)} :
            /\ db' = r.db
            /\ resp' = Response("register", <<>>, r, 0)
            /\ UNCHANGED <<tokens, history, inflight>>

Login ==
    \E user \in UserLogin :
        \E r \in {POST_users_login(user, db)},
           uid \in {query_user_by_username(db, user.username)} :
            /\ db' = r.db
            /\ tokens' = Keep(r, uid)
            /\ resp' = Response("login", <<>>, r, IF r.status = 200 THEN uid ELSE 0)
            /\ UNCHANGED <<history, inflight>>

ReadCurrentUser ==
    \E c \in Callers :
        \E r \in {GET_users_me(c.token, db)},
           uid \in {get_current_user(c.token, db).user} :
            /\ db' = r.db
            /\ resp' = Response("read_me", <<>>, r, uid)
            /\ UNCHANGED <<tokens, history, inflight>>

UpdateCurrentUser ==
    \E c \in Callers, update \in UserProfileUpdate :
        \E r \in {PUT_users_me(c.token, update, db)},
           uid \in {get_current_user(c.token, db).user} :
            /\ db' = r.db
            /\ tokens' = Keep(r, c.owner)
            /\ resp' = Response("update_me", <<>>, r, uid)
            /\ UNCHANGED <<history, inflight>>

ChangePassword ==
    \E c \in Callers, payload \in PasswordChange :
        \E r \in {POST_users_change_password(c.token, payload, db)},
           uid \in {get_current_user(c.token, db).user} :
            /\ db' = r.db
            /\ resp' = Response("change_password", <<payload>>, r, uid)
            /\ UNCHANGED <<tokens, history, inflight>>

Next ==
    \/ Register
    \/ Login
    \/ ReadCurrentUser
    \/ UpdateCurrentUser
    \/ ChangePassword

Spec == Init /\ [][Next]_vars

----------------------------------------------------------------------------
(* The calculation service, started from a store the user endpoints have   *)
(* filled: two registered users, each holding the token of a login.        *)

CalculationCreate == [a : Operands, b : Operands, type : CalculationType]
CalculationUpdate == [a : Optional(Operands), b : Optional(Operands),
                      type : CalculationType \cup {None}]
CalcIds == 1..MaxCalcs

InitCalc ==
    /\ db = [users |-> << [id |-> 1, email |-> "a@example.com", username |-> "alice",
                           password_hash |-> hash_password("securepass123")],
                          [id |-> 2, email |-> "b@example.com", username |-> "bob",
                           password_hash |-> hash_password("newsecure123")] >>,
             calcs |-> {}, calc_seq |-> 0]
    /\ tokens = {[token |-> create_access_token([sub |-> "alice"]), owner |-> 1],
                 [token |-> create_access_token([sub |-> "bob"]), owner |-> 2]}
    /\ resp = NoResponse
    /\ history = NoHistory
    /\ inflight = NoInflight

CreateCalculation ==
    /\ db.calc_seq < MaxCalcs
    /\ \E c \in Callers, calc \in CalculationCreate :
        \E r \in {POST_calculations(c.token, calc, db)},
           uid \in {get_current_user(c.token, db).user} :
            /\ db' = r.db
            /\ resp' = Response("create_calculation", <<>>, r, uid)
            /\ history' = IF r.status = 201
                           THEN [history EXCEPT !.created = @ \cup
                                    {<<r.body[1].id, uid>>}]
                           ELSE history
            /\ UNCHANGED <<tokens, inflight>>

ReadCalculations ==
    \E c \in Callers :
        \E r \in {GET_calculations(c.token, db)},
           uid \in {get_current_user(c.token, db).user} :
            /\ db' = r.db
            /\ resp' = Response("read_calculations", <<>>, r, uid)
            /\ UNCHANGED <<tokens, history, inflight>>

ReadCalculation ==
    \E c \in Callers, calc_id \in CalcIds :
        \E r \in {GET_calculations_id(c.token, calc_id, db)},
           uid \in {get_current_user(c.token, db).user} :
            /\ db' = r.db
            /\ resp' = Response("read_calculation", <<calc_id>>, r, uid)
            /\ UNCHANGED <<tokens, history, inflight>>

UpdateCalculation ==
    \E c \in Callers, calc_id \in CalcIds, update \in CalculationUpdate :
        \E r \in {PUT_calculations_id(c.token, calc_id, update, db)},
           uid \in {get_current_user(c.token, db).user} :
            /\ db' = r.db
            /\ resp' = Response("update_calculation", <<calc_id>>, r, uid)
            /\ UNCHANGED <<tokens, history, inflight>>

DeleteCalculation ==
    \E c \in Callers, calc_id \in CalcIds :
        \E r \in {DELETE_calculations_id(c.token, calc_id, db)},
           uid \in {get_current_user(c.token, db).user} :
            /\ db' = r.db
            /\ resp' = Response("delete_calculation", <<calc_id>>, r, uid)
            /\ history' = IF r.status = 204
                           THEN [history EXCEPT !.deleted = @ \cup {calc_id}]
                           ELSE history
            /\ UNCHANGED <<tokens, inflight>>

NextCalc ==
    \/ CreateCalculation
    \/ ReadCalculations
    \/ ReadCalculation
    \/ UpdateCalculation
    \/ DeleteCalculation
    \/ ReadCurrentUser

SpecCalc == InitCalc /\ [][NextCalc]_vars

----------------------------------------------------------------------------
(* Two requests served side by side.  A handler reads the store when it    *)
(* runs its existence checks and writes it when it commits; nothing in the *)
(* handlers keeps another request from running in between.  The store      *)
(* itself holds a unique constraint on users.username and on users.email:  *)
(* a commit that would break one raises IntegrityError, which no handler   *)
(* catches, so the request is answered 500 and its transaction is undone.  *)

\* Stores the user endpoints reach: empty, one user, two users.
RaceStores ==
    LET one == register_user([username |-> "alice", email |-> "a@example.com",
                              password |-> "securepass123"], EmptyStore).db
        two == register_user([username |-> "bob", email |-> "b@example.com",
                              password |-> "newsecure123"], one).db
    IN  {EmptyStore, one, two}

\* The store's unique constraints, on the rows a commit would leave.
UniqueViolation(users) ==
    \E i, j \in 1..Len(users) :
        /\ i # j
        /\ \/ users[i].username = users[j].username
           \/ users[i].email = users[j].email

\* An exception no handler catches: 500, and the transaction is rolled back.
IntegrityError(d) == HTTPException(d, 500, "Internal Server Error")

\* db.add(new_user); db.commit() of register_user, on the store as it is now.
commit_register(q, d) ==
    LET new_user == [id |-> Len(d.users) + 1,
                     email |-> q.email,
                     username |-> q.username,
                     password_hash |-> hash_password(q.password)]
        users == Append(d.users, new_user)
    IN  IF UniqueViolation(users)
        THEN IntegrityError(d)
        ELSE [db |-> [d EXCEPT !.users = users], status |-> 201, detail |-> None,
              body |-> <<UserRead(new_user)>>, access_token |-> NoToken,
              token_type |-> None]

\* The assignments and db.commit() of update_current_user: the supplied
\* columns of the user's row are written, on the store as it is now.
commit_update(q, d) ==
    LET cu == d.users[q.uid]
        named == IF q.username # None THEN [cu EXCEPT !.username = q.username] ELSE cu
        saved == IF q.email # None THEN [named EXCEPT !.email = q.email] ELSE named
        users == [d.users EXCEPT ![q.uid] = saved]
    IN  IF UniqueViolation(users)
        THEN IntegrityError(d)
        ELSE [db |-> [d EXCEPT !.users = users], status |-> 200, detail |-> None,
              body |-> <<UserRead(saved)>>,
              access_token |-> IF q.username # None
                               THEN create_access_token([sub |-> saved.username])
                               ELSE NoToken,
              token_type |-> "bearer"]

\* What a worker holds once the checks of its handler have run on store d:
\* the answer 400 if one of them found a row, else the request, to commit.
Checked(q, r) ==
    IF r.status = 400
    THEN [q EXCEPT !.pc = "done", !.status = r.status, !.detail = r.detail]
    ELSE [q EXCEPT !.pc = "checked"]

InitRace ==
    /\ db \in RaceStores
    /\ tokens = {}
    /\ resp = NoResponse
    /\ history = NoHistory
    /\ inflight = [base |-> db, slot |-> [s \in Slots |-> Idle]]

\* register_user up to and including its two existence checks.
BeginRegister ==
    \E s \in Slots, user \in UserCreate :
        /\ inflight.slot[s].pc = "idle"
        /\ inflight' = [inflight EXCEPT !.slot[s] =
               Checked([Idle EXCEPT !.kind = "register",
                                    !.username = user.username,
                                    !.email = user.email,
                                    !.password = user.password],
                       register_user(user, db))]
        /\ UNCHANGED <<db, tokens, resp, history>>

\* update_current_user, authenticated as user uid, up to and including its
\* two existence checks.
BeginUpdate ==
    \E s \in Slots, uid \in 1..Len(db.users), update \in UserProfileUpdate :
        /\ inflight.slot[s].pc = "idle"
        /\ inflight' = [inflight EXCEPT !.slot[s] =
               Checked([Idle EXCEPT !.kind = "update",
                                    !.uid = uid,
                                    !.username = update.username,
                                    !.email = update.email],
                       update_current_user(update, db, uid))]
        /\ UNCHANGED <<db, tokens, resp, history>>

\* The rest of the handler: the write and the commit.
Commit ==
    \E s \in Slots :
        /\ inflight.slot[s].pc = "checked"
        /\ \E r \in {IF inflight.slot[s].kind = "register"
                     THEN commit_register(inflight.slot[s], db)
                     ELSE commit_update(inflight.slot[s], db)} :
              /\ db' = r.db
              /\ inflight' = [inflight EXCEPT !.slot[s].pc = "done",
                                              !.slot[s].status = r.status,
                                              !.slot[s].detail = r.detail]
        /\ UNCHANGED <<tokens, resp, history>>

NextRace ==
    \/ BeginRegister
    \/ BeginUpdate
    \/ Commit

SpecRace == InitRace /\ [][NextRace]_vars

----------------------------------------------------------------------------
(* Properties.  Each one quantifies over every request that could be sent  *)
(* in the current state and looks at what the endpoint answers and at the  *)
(* store it leaves.                                                        *)

\* The user a caller's token resolves to (0: the request is rejected).
Resolve(c) == get_current_user(c.token, db).user

CreatedBy(u) == {p[1] : p \in {q \in history.created : q[2] = u}}

\* C1: per-user ownership of calculation records.  For distinct users U and
\* V and every calculation U created: a list request authenticated as V does
\* not contain it; a read, update or delete of it authenticated as V returns
\* no data (404) and leaves the store as it is; and the list returned to U
\* holds exactly the calculations U created and has not deleted.
C1_Ownership ==
    /\ \A p \in history.created : \A c \in Callers :
          (Resolve(c) # 0 /\ Resolve(c) # p[2]) =>
              /\ \A x \in GET_calculations(c.token, db).body[1] : x.id # p[1]
              /\ GET_calculations_id(c.token, p[1], db).status = 404
              /\ GET_calculations_id(c.token, p[1], db).body = <<>>
              /\ \A update \in CalculationUpdate :
                    /\ PUT_calculations_id(c.token, p[1], update, db).db = db
                    /\ PUT_calculations_id(c.token, p[1], update, db).body = <<>>
              /\ DELETE_calculations_id(c.token, p[1], db).db = db
    /\ \A c \in Callers :
          Resolve(c) # 0 =>
              /\ {x.id : x \in GET_calculations(c.token, db).body[1]}
                    = CreatedBy(Resolve(c)) \ history.deleted
              /\ \A x \in GET_calculations(c.token, db).body[1] :
                    x.user_id = Resolve(c) /\ x \in db.calcs

\* C1 witness: bob asked to delete a calculation alice created and still has,
\* and was answered 404.
C1_Witness ==
    /\ resp.op = "delete_calculation"
    /\ resp.status = 404
    /\ resp.uid = 2
    /\ <<resp.req[1], 1>> \in history.created
    /\ resp.req[1] \notin history.deleted

\* C2: login returns 200 with a bearer token exactly when a user with the
\* submitted username exists and the submitted password verifies against that
\* user's stored hash; otherwise 401 'Invalid credentials'; the store is never
\* changed.
C2_Login ==
    \A user \in UserLogin :
        LET r == POST_users_login(user, db)
            ok == \E i \in 1..Len(db.users) :
                      /\ db.users[i].username = user.username
                      /\ verify_password(user.password, db.users[i].password_hash)
        IN  /\ (r.status = 200) <=> ok
            /\ r.status = 200 =>
                  r.access_token # NoToken /\ r.token_type = "bearer"
            /\ r.status # 200 =>
                  r.status = 401 /\ r.detail = "Invalid credentials"
            /\ r.db = db

\* C2 witness: with two users registered, a login that succeeded.
C2_Witness ==
    /\ resp.op = "login"
    /\ resp.status = 200
    /\ resp.access_token # NoToken
    /\ Len(db.users) = 2

\* C3: every protected endpoint answers a request without a token with 401
\* and leaves the user store and the calculation store unchanged.
C3_NoToken ==
    LET Rejected(r) == r.status = 401 /\ r.db = db
    IN  /\ Rejected(GET_users_me(NoToken, db))
        /\ \A update \in UserProfileUpdate :
              Rejected(PUT_users_me(NoToken, update, db))
        /\ \A payload \in PasswordChange :
              Rejected(POST_users_change_password(NoToken, payload, db))
        /\ \A calc \in CalculationCreate :
              Rejected(POST_calculations(NoToken, calc, db))
        /\ Rejected(GET_calculations(NoToken, db))
        /\ \A calc_id \in CalcIds :
              /\ Rejected(GET_calculations_id(NoToken, calc_id, db))
              /\ Rejected(DELETE_calculations_id(NoToken, calc_id, db))
              /\ \A update \in CalculationUpdate :
                    Rejected(PUT_calculations_id(NoToken, calc_id, update, db))

\* C3 witness: with a calculation stored, a list request without a token was
\* answered 401.
C3_Witness ==
    /\ resp.op = "read_calculations"
    /\ resp.status = 401
    /\ resp.uid = 0
    /\ db.calcs # {}

\* Whether some stored user holds the username / the email.
UsernameHeld(username) == \E i \in 1..Len(db.users) : db.users[i].username = username
EmailHeld(email) == \E i \in 1..Len(db.users) : db.users[i].email = email

\* The status of a login as user u (an id of store d) with password pw.
LoginStatus(d, u, pw) ==
    POST_users_login([username |-> d.users[u].username, password |-> pw], d).status

\* C4: registering a username and an email that no user holds returns 201
\* and appends exactly one user: its username and email are the submitted
\* ones, its id is fresh, its stored credential is the hash of the submitted
\* password, so that a login with that username and password then succeeds;
\* the users stored before are unchanged.
C4_Register ==
    \A user \in UserCreate :
        (~UsernameHeld(user.username) /\ ~EmailHeld(user.email)) =>
            LET r == POST_users_register(user, db)
                n == Len(db.users)
            IN  /\ r.status = 201
                /\ Len(r.db.users) = n + 1
                /\ SubSeq(r.db.users, 1, n) = db.users
                /\ r.db.calcs = db.calcs
                /\ r.db.users[n + 1].username = user.username
                /\ r.db.users[n + 1].email = user.email
                /\ \A i \in 1..n : db.users[i].id # r.db.users[n + 1].id
                /\ r.db.users[n + 1].password_hash = hash_password(user.password)
                /\ r.body = <<UserRead(r.db.users[n + 1])>>
                /\ POST_users_login([username |-> user.username,
                                     password |-> user.password], r.db).status = 200

\* C4 witness: a second user was registered.
C4_Witness ==
    /\ resp.op = "register"
    /\ resp.status = 201
    /\ Len(db.users) = 2
    /\ resp.body[1].id = 2

\* C5: registering an email some user holds returns 400 'Email already
\* registered', also when the username is taken too, and the store is the
\* same before and after.
C5_DuplicateEmail ==
    \A user \in UserCreate :
        EmailHeld(user.email) =>
            LET r == POST_users_register(user, db)
            IN  /\ r.status = 400
                /\ r.detail = "Email already registered"
                /\ r.db = db

\* C5 witness: a registration was refused for its email.
C5_Witness ==
    /\ resp.op = "register"
    /\ resp.status = 400
    /\ resp.detail = "Email already registered"
    /\ Len(db.users) >= 1

\* C6: registering a fresh email with a username some user holds returns 400
\* 'Username already taken' and the store is the same before and after.
C6_DuplicateUsername ==
    \A user \in UserCreate :
        (~EmailHeld(user.email) /\ UsernameHeld(user.username)) =>
            LET r == POST_users_register(user, db)
            IN  /\ r.status = 400
                /\ r.detail = "Username already taken"
                /\ r.db = db

\* C6 witness: a registration was refused for its username.
C6_Witness ==
    /\ resp.op = "register"
    /\ resp.status = 400
    /\ resp.detail = "Username already taken"

\* C7: after a successful change of password to a different one, a login
\* with the user's username and the old password returns 401 and one with the
\* new password returns 200; and no step other than a successful password
\* change of that user changes what any password does at that user's login.
C7_ChangePassword ==
    [][ /\ ( /\ resp'.op = "change_password"
             /\ resp'.status = 200
             /\ resp'.req[1].new_password # resp'.req[1].current_password )
           => /\ LoginStatus(db', resp'.uid, resp'.req[1].current_password) = 401
              /\ LoginStatus(db', resp'.uid, resp'.req[1].new_password) = 200
        /\ \A u \in 1..Len(db.users), pw \in Passwords :
              ~(resp'.op = "change_password" /\ resp'.status = 200 /\ resp'.uid = u)
                  => LoginStatus(db', u, pw) = LoginStatus(db, u, pw) ]_vars

\* C7 witness: a password was changed to a different one.
C7_Witness ==
    /\ resp.op = "change_password"
    /\ resp.status = 200
    /\ resp.req[1].new_password # resp.req[1].current_password
    /\ db.users[resp.uid].password_hash = hash_password(resp.req[1].new_password)

\* C8 as stated: a change-password whose current_password does not verify
\* returns 400 'Current password is incorrect' and leaves the hash unchanged,
\* so the old password still logs in and the submitted new password does not.
C8_AsStated ==
    \A c \in Callers, payload \in PasswordChange :
        LET u == Resolve(c)
            r == POST_users_change_password(c.token, payload, db)
        IN  (u # 0 /\ ~verify_password(payload.current_password, db.users[u].password_hash)) =>
                /\ r.status = 400
                /\ r.detail = "Current password is incorrect"
                /\ r.db.users[u].password_hash = db.users[u].password_hash
                /\ \A pw \in Passwords :
                      verify_password(pw, db.users[u].password_hash)
                          => LoginStatus(r.db, u, pw) = 200
                /\ LoginStatus(r.db, u, payload.new_password) # 200

\* C8: a change-password whose current_password does not verify returns 400
\* 'Current password is incorrect' and leaves the store unchanged, so the old
\* password still logs in, and the submitted new password logs in only if it
\* is the password the user already has.
C8_WrongCurrent ==
    \A c \in Callers, payload \in PasswordChange :
        LET u == Resolve(c)
            r == POST_users_change_password(c.token, payload, db)
        IN  (u # 0 /\ ~verify_password(payload.current_password, db.users[u].password_hash)) =>
                /\ r.status = 400
                /\ r.detail = "Current password is incorrect"
                /\ r.db = db
                /\ \A pw \in Passwords :
                      verify_password(pw, db.users[u].password_hash)
                          => LoginStatus(r.db, u, pw) = 200
                /\ (LoginStatus(r.db, u, payload.new_password) = 200)
                      <=> verify_password(payload.new_password, db.users[u].password_hash)

\* C8 witness: a password change was refused for its current password.
C8_Witness ==
    /\ resp.op = "change_password"
    /\ resp.status = 400
    /\ resp.uid # 0
    /\ ~verify_password(resp.req[1].current_password, db.users[resp.uid].password_hash)

\* C9: a successful profile update that changes the username returns a token,
\* and that token, presented to GET /users/me, authenticates as the same user
\* and returns the new username and the updated email.
C9_TokenRefresh ==
    \A c \in Callers, update \in UserProfileUpdate :
        LET u == Resolve(c)
            r == PUT_users_me(c.token, update, db)
        IN  ( /\ u # 0
              /\ r.status = 200
              /\ update.username # None
              /\ update.username # db.users[u].username ) =>
                LET me == GET_users_me(r.access_token, r.db)
                IN  /\ r.access_token # NoToken
                    /\ me.status = 200
                    /\ me.body[1].id = db.users[u].id
                    /\ me.body[1].username = update.username
                    /\ me.body[1].email = IF update.email # None THEN update.email
                                          ELSE db.users[u].email

\* C9 witness: with two users registered, a profile update renamed its caller
\* and returned a token.
C9_Witness ==
    /\ resp.op = "update_me"
    /\ resp.status = 200
    /\ resp.access_token # NoToken
    /\ Len(db.users) = 2
    /\ \E h \in tokens : h.owner = resp.uid /\ h.token # resp.access_token

\* C10: a profile update that asks for a username a different user holds
\* returns 400 'Username already taken' and changes nothing.
C10_DuplicateUsername ==
    \A c \in Callers, update \in UserProfileUpdate :
        LET u == Resolve(c)
            r == PUT_users_me(c.token, update, db)
        IN  ( /\ u # 0
              /\ update.username # None
              /\ \E v \in 1..Len(db.users) :
                    v # u /\ db.users[v].username = update.username ) =>
                /\ r.status = 400
                /\ r.detail = "Username already taken"
                /\ r.db = db

\* C10 witness: a profile update was refused for its username.
C10_Witness ==
    /\ resp.op = "update_me"
    /\ resp.status = 400
    /\ resp.detail = "Username already taken"
    /\ resp.uid # 0

\* C11: GET /users/me presented with the token a login of user U returned
\* answers with U's username and email: at once, and for every token a client
\* holds whose subject is still its owner's username.
C11_ReadMe ==
    /\ \A user \in UserLogin :
          LET r == POST_users_login(user, db)
              me == GET_users_me(r.access_token, r.db)
          IN  r.status = 200 =>
                  /\ me.status = 200
                  /\ me.body[1].username = user.username
                  /\ \A i \in 1..Len(db.users) :
                        ( /\ db.users[i].username = user.username
                          /\ verify_password(user.password, db.users[i].password_hash) )
                            => me.body = <<UserRead(db.users[i])>>
    /\ \A h \in tokens :
          h.token[2] = db.users[h.owner].username =>
              LET me == GET_users_me(h.token, db)
              IN  /\ me.status = 200
                  /\ me.body = <<UserRead(db.users[h.owner])>>
                  /\ me.db = db

\* C11 witness: with two users registered, GET /users/me answered a client
\* that holds a token of the user it was resolved to.
C11_Witness ==
    /\ resp.op = "read_me"
    /\ resp.status = 200
    /\ Len(db.users) = 2
    /\ \E h \in tokens :
          /\ h.owner = resp.uid
          /\ h.token[2] = db.users[resp.uid].username
          /\ resp.body = <<UserRead(db.users[h.owner])>>

\* The calculations a caller is shown by GET /calculations/ on store d.
Listed(c, d) == GET_calculations(c.token, d).body

\* C12: creating a Divide with b = 0 is rejected with 422 'Division by zero'
\* and stores nothing: the caller's list is the same before and after.
C12_DivideByZero ==
    \A c \in Callers, a \in Operands :
        Resolve(c) # 0 =>
            LET r == POST_calculations(c.token, [a |-> a, b |-> 0, type |-> "Divide"], db)
            IN  /\ r.status = 422
                /\ r.detail = "Division by zero is not allowed"
                /\ r.db = db
                /\ Listed(c, r.db) = Listed(c, db)

\* C12 witness: a creation was answered 422.
C12_Witness ==
    /\ resp.op = "create_calculation"
    /\ resp.status = 422
    /\ resp.uid # 0
    /\ db.calcs = {}

\* Whether the fraction q is the value of type applied to a and b.
IsResult(q, a, b, type) ==
    /\ q[2] > 0
    /\ Gcd(Abs(q[1]), q[2]) = 1
    /\ CASE type = "Add" -> q[1] = (a + b) * q[2]
         [] type = "Subtract" -> q[1] = (a - b) * q[2]
         [] type = "Multiply" -> q[1] = (a * b) * q[2]
         [] type = "Divide" -> b # 0 /\ q[1] * b = a * q[2]

\* C13: a creation with operands a, b and a type (b # 0 for Divide) returns
\* 201 and stores one new record, owned by the caller, whose result is a+b,
\* a-b, a*b or a/b.
C13_Create ==
    \A c \in Callers, calc \in CalculationCreate :
        (Resolve(c) # 0 /\ ~(calc.type = "Divide" /\ calc.b = 0)) =>
            LET r == POST_calculations(c.token, calc, db)
            IN  /\ r.status = 201
                /\ Len(r.body) = 1
                /\ r.body[1] \notin db.calcs
                /\ \A x \in db.calcs : x.id # r.body[1].id
                /\ r.db.calcs = db.calcs \cup {r.body[1]}
                /\ r.db.users = db.users
                /\ r.body[1].user_id = Resolve(c)
                /\ r.body[1].a = calc.a
                /\ r.body[1].b = calc.b
                /\ r.body[1].type = calc.type
                /\ IsResult(r.body[1].result, calc.a, calc.b, calc.type)

\* C13 witness: bob created the division 3 / 3 and it is stored with result 1.
C13_Witness ==
    /\ resp.op = "create_calculation"
    /\ resp.status = 201
    /\ resp.uid = 2
    /\ resp.body[1].type = "Divide"
    /\ resp.body[1].a = 3
    /\ resp.body[1].result = <<1, 1>>
    /\ resp.body[1] \in db.calcs

C16_TokenIdentity ==
    \A h \in tokens : Resolve(h) \in {0, h.owner}

\* C18: after any sequence of register, profile-update and change-password
\* requests executed one after the other, no two distinct users share a
\* username and no two share an email.
C18_Unique ==
    \A i, j \in 1..Len(db.users) :
        i # j => /\ db.users[i].username # db.users[j].username
                 /\ db.users[i].email # db.users[j].email

\* C18 witness: with two users registered, a profile update has just renamed
\* one of them.
C18_Witness ==
    /\ Len(db.users) = 2
    /\ resp.op = "update_me"
    /\ resp.status = 200
    /\ resp.access_token # NoToken
    /\ resp.body[1].username = db.users[resp.uid].username

\* C19: PUT /users/me is all-or-nothing.  Both uniqueness checks precede every
\* write: a request is refused (400, nothing changed) exactly when it supplies
\* a username or an email held by another user, the username being reported
\* first; a value that is the user's own is no conflict.  An accepted request
\* (200) replaces exactly the supplied fields and changes neither the user's
\* id or password hash nor any other user's record.
C19_AllOrNothing ==
    \A c \in Callers, update \in UserProfileUpdate :
        Resolve(c) # 0 =>
            LET u == Resolve(c)
                r == PUT_users_me(c.token, update, db)
                name_taken == \E i \in 1..Len(db.users) :
                    i # u /\ update.username # None
                          /\ db.users[i].username = update.username
                email_taken == \E i \in 1..Len(db.users) :
                    i # u /\ update.email # None
                          /\ db.users[i].email = update.email
            IN  /\ name_taken =>
                      /\ r.status = 400 /\ r.detail = "Username already taken"
                      /\ r.db = db
                /\ (~name_taken /\ email_taken) =>
                      /\ r.status = 400 /\ r.detail = "Email already registered"
                      /\ r.db = db
                /\ (~name_taken /\ ~email_taken) =>
                      /\ r.status = 200
                      /\ Len(r.db.users) = Len(db.users)
                      /\ \A i \in 1..Len(db.users) : i # u => r.db.users[i] = db.users[i]
                      /\ r.db.users[u].id = db.users[u].id
                      /\ r.db.users[u].password_hash = db.users[u].password_hash
                      /\ r.db.users[u].username =
                            IF update.username = None THEN db.users[u].username
                                                      ELSE update.username
                      /\ r.db.users[u].email =
                            IF update.email = None THEN db.users[u].email
                                                   ELSE update.email
                      /\ r.db.calcs = db.calcs

\* C19 witness: a profile update was refused because of the email while the
\* third username, which it may have asked for, is free and the user keeps
\* its name.
C19_Witness ==
    /\ resp.op = "update_me"
    /\ resp.status = 400
    /\ resp.detail = "Email already registered"
    /\ resp.uid # 0
    /\ Len(db.users) = 2
    /\ \E n \in Usernames : \A i \in 1..Len(db.users) : db.users[i].username # n

\* C20: a successful PUT /users/me returns a non-null access_token exactly
\* when the username changed; when no username is supplied or the supplied
\* one is the current one, access_token is null.
C20_TokenIffRenamed ==
    \A c \in Callers, update \in UserProfileUpdate :
        Resolve(c) # 0 =>
            LET r == PUT_users_me(c.token, update, db)
                renamed == r.db.users[Resolve(c)].username
                               # db.users[Resolve(c)].username
            IN  r.status = 200 => (r.access_token # NoToken <=> renamed)

\* Whether request q, served alone on store d, is accepted.
AcceptedAlone(q, d) ==
    IF q.kind = "register"
    THEN register_user([username |-> q.username, email |-> q.email,
                        password |-> q.password], d).status = 201
    ELSE /\ q.uid \in 1..Len(d.users)
         /\ update_current_user([username |-> q.username, email |-> q.email],
                                d, q.uid).status = 200

\* Whether two requests claim the same username or the same email.
SameClaim(p, q) ==
    \/ p.username # None /\ p.username = q.username
    \/ p.email # None /\ p.email = q.email

\* C17: of two requests of different clients that claim the same username or
\* the same email, each acceptable on its own, and that are served side by
\* side (checks and commit being separate steps), exactly one succeeds and
\* the other is answered 400, whatever the interleaving; and no store holds
\* two users with the same username or email.
C17_Race ==
    /\ ~UniqueViolation(db.users)
    /\ \A s, t \in Slots :
          LET p == inflight.slot[s]
              q == inflight.slot[t]
          IN  ( /\ s # t
                /\ p.pc = "done" /\ q.pc = "done"
                /\ ~(p.kind = "update" /\ q.kind = "update" /\ p.uid = q.uid)
                /\ SameClaim(p, q)
                /\ AcceptedAlone(p, inflight.base)
                /\ AcceptedAlone(q, inflight.base) )
              => \/ p.status \in {200, 201} /\ q.status = 400
                 \/ q.status \in {200, 201} /\ p.status = 400

====
